---- MODULE Spec2Model ----
(***************************************************************************)
(* Model of the connection wrappers of package shadowsocks:                *)
(*   DelayConn  - the write-coalescing wrapper and its flush goroutine,    *)
(*   RemainConn - look-ahead / unsent-header wrapper,                      *)
(*   ObfsConn   - the chunk framer with its graceful drain-and-pool Close. *)
(* Bytes are their ASCII codes.  Every action is one critical section (or  *)
(* one blocking call) of the Go code; goroutines interleave between them.  *)
(***************************************************************************)
EXTENDS Integers, Sequences, FiniteSets, TLC

\* ------------------------------------------------------------------ bounds
BufferSize == 5      \* stands for the package constant buffersize
MaxWrites  == 3      \* application Write calls on the DelayConn
MaxWLen    == 3      \* longest slice handed to one Write on the DelayConn
DataBytes  == {1, 2} \* byte values the application writes to the DelayConn

VARIABLES
  \* ---- DelayConn fields
  wbuf,        \* c.wbuf, indices 1..BufferSize
  off,         \* c.off
  started,     \* c.started
  destroyed,   \* c.destroyed
  die,         \* TRUE once close(c.die) has run
  lpc,         \* position of the sendLoop goroutine
  \* ---- DelayConn: the connection below and what an observer records
  dClosed,     \* number of c.Conn.Close() calls
  dieCloses,   \* number of close(c.die) calls
  sent,        \* concatenation of the bytes passed to c.Conn.Write
  written,     \* concatenation of the bytes passed to DelayConn.Write
  nApp,        \* DelayConn.Write calls
  nUnder,      \* c.Conn.Write calls (from Write and from the loop)
  nLoopWr,     \* c.Conn.Write calls issued by the loop
  nLoops,      \* sendLoop goroutines started
  wfailed      \* some c.Conn.Write has returned an error

dvars == <<wbuf, off, started, destroyed, die, lpc, dClosed, dieCloses,
           sent, written, nApp, nUnder, nLoopWr, nLoops, wfailed>>

\* ---- bounds of the framer model
MaxBuf       == 2        \* largest read buffer an application passes to Read
MaxPayload   == 2        \* longest payload the peer frames (short ones)
MaxPeerSends == 2        \* segments the peer puts on the wire
PayloadBytes == {97}     \* 'a'
MaxFrame     == 27       \* longest payload of the codec runs (hex 1b)
LongBytes    == {120}    \* 'x', the byte of the codec runs' payloads
MaxOWrites   == 2        \* application Writes of the codec runs
MaxPartial   == 3        \* largest count of a failed underlying write

RawBytes == {103}        \* 'g': what the peer sends when it breaks framing

Readers == {"r1", "r2"}  \* goroutines calling ObfsConn.Read
Closers == {"c1", "c2"}  \* goroutines calling ObfsConn.Close
Threads == Readers \cup Closers

CR == 13
LF == 10

VARIABLES
  \* ---- the net.Conn below the RemainConn
  inb,         \* bytes the peer has sent and the framer has not read yet
  inEOF,       \* the peer has closed: reads fail once inb is drained
  cClosed,     \* number of Close() calls on the underlying net.Conn
  \* ---- RemainConn fields
  remain, wremain,
  \* ---- ObfsConn fields
  resp, req, chunkLen, pool, eos, reading, destroy,
  lock,        \* holder of c.lock across a blocking call, or "none"
  rlock,       \* holder of c.rlock, or "none"
  \* ---- goroutines
  pc,          \* position of each goroutine
  loc,         \* locals of its readInLock execution
  res,         \* what the last Read to return returned, and to whom
  panicked,    \* a goroutine has panicked (the process is gone)
  \* ---- what an observer records
  decoded,     \* payload bytes returned by readInLock, in order
  peerSent,    \* payload bytes the peer has framed, in order
  peerBad,     \* the peer has sent bytes that are not a frame
  peerEos,     \* the peer has written an end-of-stream chunk
  sentLens,    \* the lengths of the payloads the peer has written
  pwremain,    \* wremain of the peer's framer: its disguise header if unsent
  nPeer,       \* segments the peer has sent
  nPut,        \* successful pool.Put calls
  nPutCalls,   \* pool.Put calls
  pooled,      \* the framers pool.Put has accepted
  wire,        \* the bytes of the last write to the underlying net.Conn
  nOW,         \* writes to the underlying net.Conn
  wlast,       \* the payload handed to the last ObfsConn.Write
  wres,        \* what the last RemainConn.Write returned (n, err) and the
               \* count un that its c.Conn.Write returned
  acc,         \* what obfsAcceptHandler returned: "pending" before it has
               \* run, then "closed" (nil), "plain" or "framer"
  cfgPool,     \* the Config (listener or dialer) has a pool
  nEos,        \* end-of-stream chunks written by Close
  closeWrote,  \* Close has written its end-of-stream chunk
  closeDone,   \* the Close that ran the body has returned
  reClosed,    \* a Close call has found the framer destroyed (line 140)
  drainFailed, \* a read of the drain failed before the marker was seen
  framingSeen, \* an application Read has failed with a framing error
  hsFailed     \* an application Read has failed in the handshake

ovars == <<inb, inEOF, cClosed, remain, wremain, resp, req, chunkLen, pool,
           eos, reading, destroy, lock, rlock, pc, loc, res, panicked,
           decoded, peerSent, peerBad, peerEos, sentLens,
           pwremain, nPeer, nPut, nPutCalls, pooled, wire,
           nOW, wlast, wres, acc, cfgPool,
           nEos, closeWrote, closeDone, reClosed, drainFailed, framingSeen,
           hsFailed>>

vars == <<dvars, ovars>>

peerv == <<peerSent, peerBad, peerEos, sentLens, pwremain, nPeer, inEOF>>
poolv == <<nPut, nPutCalls, pooled>>
wrv   == <<wremain, wire, nOW, wlast, wres>>
clv   == <<nEos, closeWrote, closeDone, reClosed>>

\* ------------------------------------------------------------- helpers
IsPrefix(s, t) == Len(s) <= Len(t) /\ SubSeq(t, 1, Len(s)) = s

SeqsUpTo(S, n) == UNION {[1..k -> S] : k \in 0..n}

\* a copy that ignores the offset
CopyAtStart(dst, at, src) ==
  [i \in 1..Len(dst) |-> IF i <= Len(src) THEN src[i] ELSE dst[i]]

\* copy(dst[at:], src) on a fixed array: copies what fits, returns new array
CopyAt(dst, at, src) ==
  [i \in 1..Len(dst) |->
     IF i > at /\ i <= at + Len(src) THEN src[i - at] ELSE dst[i]]

\* ------------------------------------------------------------ DelayConn
\* NewDelayConn
DInit ==
  /\ wbuf = [i \in 1..BufferSize |-> 0]
  /\ off = 0
  /\ started = FALSE
  /\ destroyed = FALSE
  /\ die = FALSE
  /\ lpc = "none"
  /\ dClosed = 0
  /\ dieCloses = 0
  /\ sent = <<>>
  /\ written = <<>>
  /\ nApp = 0
  /\ nUnder = 0
  /\ nLoopWr = 0
  /\ nLoops = 0
  /\ wfailed = FALSE

\* a signal that wakes nobody
WakeLost(p) == p

\* c.cond.Signal() / c.cond.Broadcast(): the only possible waiter is the loop
Wake(p) == IF p = "wait" THEN "woken" ELSE p

\* the test of line 29 left out
DCloseSkipsNever == FALSE

\* line 29: Close has already run
DCloseSkips == destroyed

\* body of DelayConn.Close, lines 29-35, run with the lock held
DCloseBody(endpc) ==
  IF DCloseSkips
  THEN /\ lpc' = endpc
       /\ UNCHANGED <<destroyed, die, dieCloses, dClosed>>
  ELSE /\ destroyed' = TRUE
       /\ die' = TRUE
       /\ dieCloses' = dieCloses + 1
       /\ lpc' = Wake(endpc)
       /\ dClosed' = dClosed + 1

\* DelayConn.Close called by the application
DClose ==
  /\ DCloseBody(lpc)
  /\ UNCHANGED <<wbuf, off, started, sent, written, nApp, nUnder, nLoopWr,
                 nLoops, wfailed>>

\* the test of line 95 with a strict comparison
WriteBypassesStrict(n, o) == n + o > BufferSize

\* the test of line 95 letting the buffer overrun
WriteBypassesLate(n, o) == n + o > BufferSize + 1

\* line 95: the write does not go through the buffer
WriteBypasses(n, o) == n + o >= BufferSize

\* DelayConn.Write(b); ok is the outcome of c.Conn.Write when one is issued
DWrite(b, ok) ==
  /\ nApp < MaxWrites
  /\ nApp' = nApp + 1
  /\ written' = written \o b
  /\ IF Len(b) = 0
     THEN UNCHANGED <<wbuf, off, started, lpc, sent, nUnder, nLoops, wfailed>>
     ELSE IF WriteBypasses(Len(b), off)
     THEN /\ sent' = sent \o SubSeq(wbuf, 1, off) \o b
          /\ nUnder' = nUnder + 1
          /\ wfailed' = (wfailed \/ ~(ok /\ dClosed = 0))
          /\ off' = 0
          /\ UNCHANGED <<wbuf, started, lpc, nLoops>>
     ELSE /\ wbuf' = CopyAt(wbuf, off, b)
          /\ off' = off + Len(b)
          /\ started' = TRUE
          /\ nLoops' = IF started THEN nLoops ELSE nLoops + 1
          /\ lpc' = IF started THEN Wake(lpc) ELSE "top"
          /\ UNCHANGED <<sent, nUnder, wfailed>>
  /\ UNCHANGED <<destroyed, die, dClosed, dieCloses, nLoopWr>>

\* sendLoopOnce lines 39-59: lock, test destroyed, wait or go on to the delay
LoopTop ==
  /\ lpc = "top"
  /\ lpc' = IF destroyed THEN "done"
            ELSE IF off = 0 THEN "wait" ELSE "select"
  /\ UNCHANGED <<wbuf, off, started, destroyed, die, dClosed, dieCloses,
                 sent, written, nApp, nUnder, nLoopWr, nLoops, wfailed>>

\* return from c.cond.Wait(), lines 51-59
LoopWake ==
  /\ lpc = "woken"
  /\ lpc' = IF destroyed THEN "done"
            ELSE IF off = 0 THEN "top" ELSE "select"
  /\ UNCHANGED <<wbuf, off, started, destroyed, die, dClosed, dieCloses,
                 sent, written, nApp, nUnder, nLoopWr, nLoops, wfailed>>

\* select, case <-c.die (lines 61-63)
LoopSelectDie ==
  /\ lpc = "select"
  /\ die
  /\ lpc' = "done"
  /\ UNCHANGED <<wbuf, off, started, destroyed, die, dClosed, dieCloses,
                 sent, written, nApp, nUnder, nLoopWr, nLoops, wfailed>>

\* select, case <-time.After(delayConnTick) (line 64)
LoopSelectTick ==
  /\ lpc = "select"
  /\ lpc' = "tick"
  /\ UNCHANGED <<wbuf, off, started, destroyed, die, dClosed, dieCloses,
                 sent, written, nApp, nUnder, nLoopWr, nLoops, wfailed>>

\* lines 66-72: lock again, flush the buffer
LoopFlush(ok) ==
  /\ lpc = "tick"
  /\ IF off = 0
     THEN /\ lpc' = "top"
          /\ UNCHANGED <<off, sent, nUnder, nLoopWr, wfailed>>
     ELSE /\ sent' = sent \o SubSeq(wbuf, 1, off)
          /\ nUnder' = nUnder + 1
          /\ nLoopWr' = nLoopWr + 1
          /\ wfailed' = (wfailed \/ ~(ok /\ dClosed = 0))
          /\ off' = 0
          /\ lpc' = IF ok /\ dClosed = 0 THEN "top" ELSE "errclose"
  /\ UNCHANGED <<wbuf, started, destroyed, die, dClosed, dieCloses,
                 written, nApp, nLoops>>

\* deferred c.Close() after a failed flush (lines 43-45)
LoopErrClose ==
  /\ lpc = "errclose"
  /\ DCloseBody("done")
  /\ UNCHANGED <<wbuf, off, started, sent, written, nApp, nUnder, nLoopWr,
                 nLoops, wfailed>>

DNext ==
  \/ DClose /\ UNCHANGED ovars
  \/ \E b \in SeqsUpTo(DataBytes, MaxWLen), ok \in BOOLEAN :
        DWrite(b, ok) /\ UNCHANGED ovars
  \/ LoopTop /\ UNCHANGED ovars
  \/ LoopWake /\ UNCHANGED ovars
  \/ LoopSelectDie /\ UNCHANGED ovars
  \/ LoopSelectTick /\ UNCHANGED ovars
  \/ \E ok \in BOOLEAN : LoopFlush(ok) /\ UNCHANGED ovars
  \/ LoopErrClose /\ UNCHANGED ovars

\* --------------------------------------------------------------- framing
Min(a, b) == IF a < b THEN a ELSE b

\* one digit as "%X" would print it
HexDigitUpper(d) == IF d < 10 THEN 48 + d ELSE 55 + d

\* one digit of fmt.Sprintf("%x", n)
HexDigit(d) == IF d < 10 THEN 48 + d ELSE 87 + d

\* fmt.Sprintf("%x", n) for n >= 0
RECURSIVE HexStr(_)
HexStr(n) ==
  IF n < 16 THEN <<HexDigit(n)>>
  ELSE HexStr(n \div 16) \o <<HexDigit(n % 16)>>

\* the test of line 283
IsHexByte(c) == (c >= 48 /\ c <= 57) \/ (c >= 97 /\ c <= 102)

HexVal(c) == IF c <= 57 THEN c - 48 ELSE c - 87

\* strconv.ParseInt(s, 16, 0) on a non-empty string of hex digits
RECURSIVE ParseHex(_)
ParseHex(s) ==
  IF s = <<>> THEN 0
  ELSE ParseHex(SubSeq(s, 1, Len(s) - 1)) * 16 + HexVal(s[Len(s)])

\* the buffer ObfsConn.Write builds, lines 196-201
ObfsFrame(b) == HexStr(Len(b)) \o <<CR, LF>> \o b \o <<CR, LF>>

\* the bytes RemainConn.Write(buf) hands to the net.Conn, lines 383-392
WireBytes(wrem, buf) == IF Len(wrem) # 0 THEN wrem \o buf ELSE buf

\* ------------------------------------------------------- reads from below
\* net.Conn.Read into m >= 1 bytes: an error on a closed connection, any
\* non-empty prefix of what has arrived, an error at end of stream, or it
\* blocks (no outcome)
ConnRead(m) ==
  IF cClosed > 0
  THEN {[err |-> TRUE, data |-> <<>>, rem |-> remain, inb |-> inb]}
  ELSE IF inb # <<>>
  THEN {[err |-> FALSE, data |-> SubSeq(inb, 1, j), rem |-> remain,
         inb |-> SubSeq(inb, j + 1, Len(inb))] : j \in 1..Min(m, Len(inb))}
  ELSE IF inEOF
  THEN {[err |-> TRUE, data |-> <<>>, rem |-> remain, inb |-> inb]}
  ELSE {}

\* RemainConn.Read into m >= 1 bytes
RemainRead(m) ==
  IF Len(remain) = 0 THEN ConnRead(m)
  ELSE LET n == Min(m, Len(remain)) IN
       {[err |-> FALSE, data |-> SubSeq(remain, 1, n),
         rem |-> SubSeq(remain, n + 1, Len(remain)), inb |-> inb]}

\* "POST", line 439
MethodToken == <<80, 79, 83, 84>>

\* the disguise headers, cut down to what tells a request from a response and
\* the line feed that ends the header block
ReqHeader  == MethodToken \o <<LF>>
RespHeader == <<72, LF>>

\* the byte-at-a-time header acceptor run over buf as in the loops of lines
\* 220-227: it = bytes fed, ok = header complete, err = the acceptor refused
HeaderScan(marker, buf) ==
  IF buf[1] # marker THEN [ok |-> FALSE, err |-> TRUE, it |-> 1]
  ELSE LET ends == {i \in 2..Len(buf) : buf[i] = LF} IN
       IF ends = {} THEN [ok |-> FALSE, err |-> FALSE, it |-> Len(buf)]
       ELSE [ok |-> TRUE, err |-> FALSE,
             it |-> CHOOSE i \in ends : \A j \in ends : i <= j]

\* ObfsConn.readObfsHeader(b) with len(b) = m, lines 206-248, for one outcome
\* r of its RemainConn.Read: hs = the role flags are cleared, again = no byte
\* for the caller yet (doRead goes on to line 257)
HeaderOutcome(m, r) ==
  IF r.err
  THEN [err |-> "io", again |-> FALSE, hs |-> FALSE, data |-> <<>>,
        took |-> <<>>, rem |-> r.rem, inb |-> r.inb]
  ELSE LET sc   == HeaderScan(IF resp THEN RespHeader[1] ELSE ReqHeader[1],
                              r.data)
           rest == SubSeq(r.data, sc.it + 1, Len(r.data))
           n    == Min(m, Len(rest))
       IN  IF sc.err \/ ~sc.ok
           THEN [err |-> "handshake", again |-> FALSE, hs |-> FALSE,
                 data |-> <<>>, took |-> r.data, rem |-> r.rem, inb |-> r.inb]
           ELSE [err |-> "none", again |-> (n = 0), hs |-> TRUE,
                 data |-> SubSeq(rest, 1, n),
                 took |-> SubSeq(r.data, 1, sc.it + n),
                 rem |-> r.rem \o SubSeq(rest, n + 1, Len(rest)),
                 inb |-> r.inb]

\* ObfsConn.doRead into m >= 1 bytes, lines 250-258
DoRead(m) ==
  IF req \/ resp
  THEN {HeaderOutcome(m, r) : r \in RemainRead(BufferSize)}
  ELSE {[err |-> IF r.err THEN "io" ELSE "none", again |-> FALSE,
         hs |-> FALSE, data |-> r.data, took |-> r.data, rem |-> r.rem,
         inb |-> r.inb] : r \in RemainRead(m)}

\* -------------------------------------------------------------- ObfsConn
NoLoc == [k |-> 0, str |-> <<>>, need |-> 0, got |-> <<>>, cl0 |-> 0]
NoRes == [t |-> "none", n |-> 0, err |-> "init"]

\* the fields of a framer as NewObfsConn leaves them, and the observers
OFields ==
  /\ inEOF = FALSE
  /\ cClosed = 0
  /\ remain = <<>>
  /\ req = FALSE
  /\ chunkLen = 0
  /\ eos = FALSE
  /\ reading = FALSE
  /\ destroy = FALSE
  /\ lock = "none"
  /\ rlock = "none"
  /\ pc = [t \in Threads |-> "idle"]
  /\ loc = [t \in Threads |-> NoLoc]
  /\ res = NoRes
  /\ panicked = FALSE
  /\ decoded = <<>>
  /\ peerSent = <<>>
  /\ peerBad = FALSE
  /\ peerEos = FALSE
  /\ sentLens = <<>>
  /\ inb = <<>>
  /\ nPeer = 0
  /\ nPut = 0
  /\ nPutCalls = 0
  /\ pooled = <<>>
  /\ wire = <<>>
  /\ nOW = 0
  /\ wlast = <<>>
  /\ wres = [n |-> 0, err |-> FALSE, un |-> 0]
  /\ nEos = 0
  /\ closeWrote = FALSE
  /\ closeDone = FALSE
  /\ reClosed = FALSE
  /\ drainFailed = FALSE
  /\ framingSeen = FALSE
  /\ hsFailed = FALSE

\* a framer on an idle connection
OBase == OFields /\ acc = "framer"

\* a framer whose disguise headers have gone by in both directions, with a
\* pool (lines 180-181, 421, 448) or without one
OInit ==
  /\ OBase
  /\ pool \in BOOLEAN
  /\ cfgPool = pool
  /\ wremain = <<>>
  /\ resp = FALSE
  /\ pwremain = <<>>

\* the framer DialObfs returns, lines 419-424, facing the framer that
\* obfsAcceptHandler builds at the other end, line 446
ODial ==
  /\ OBase
  /\ pool \in BOOLEAN
  /\ cfgPool = pool
  /\ wremain = ReqHeader
  /\ resp = TRUE
  /\ pwremain = RespHeader

\* a connection the listener has just accepted, before obfsAcceptHandler
\* runs: the client is a dialling framer or sends undisguised bytes
OListen ==
  /\ OFields
  /\ acc = "pending"
  /\ pool = FALSE
  /\ cfgPool \in BOOLEAN
  /\ wremain = <<>>
  /\ resp = FALSE
  /\ pwremain \in {ReqHeader, <<>>}

\* the framer variables while only the DelayConn is exercised
OIdle == OInit /\ pool = FALSE

obsv  == <<decoded, drainFailed, framingSeen, hsFailed>>
hsv   == <<resp, req>>

\* readInLock returns (n, e) to goroutine t, d being the bytes left in b[:n].
\* A reader releases rlock (deferred, line 354); Close releases lock and
\* tests the error (lines 169-177).
Ret(t, n, e, d, eosNow) ==
  /\ decoded' = IF e = "none" THEN decoded \o d ELSE decoded
  /\ drainFailed' = (drainFailed \/
                      (closeWrote /\ ~eosNow /\ e \notin {"none", "eos"}))
  /\ framingSeen' = (framingSeen \/ (t \in Readers /\ e = "framing"))
  /\ hsFailed' = (hsFailed \/ (t \in Readers /\ e = "handshake"))
  /\ loc' = [loc EXCEPT ![t] = NoLoc]
  /\ IF t \in Readers
     THEN /\ res' = [t |-> t, n |-> n, err |-> e]
          /\ rlock' = "none"
          /\ pc' = [pc EXCEPT ![t] = "fin"]
          /\ UNCHANGED lock
     ELSE /\ lock' = "none"
          /\ pc' = [pc EXCEPT ![t] =
                      IF e = "none" THEN "c_drain"
                      ELSE IF eosNow THEN "c_put" ELSE "c_hard"]
          /\ UNCHANGED <<res, rlock>>

\* readInLock goes on to position p without returning
Goto(t, p) ==
  /\ pc' = [pc EXCEPT ![t] = p]
  /\ UNCHANGED <<lock, rlock, res, obsv>>

\* position after the tests of lines 261-271 for a buffer of k bytes
\* (cap(b) = len(b)); "panic" is b[:c.chunkLen] past the capacity
Entry(k) ==
  IF k = 0 THEN "ret0"
  ELSE IF chunkLen > 0 /\ chunkLen <= 2
       THEN (IF chunkLen > k THEN "panic" ELSE "p_term")
  ELSE IF chunkLen = 0 THEN "p_hdr"
  ELSE "p_body"

\* goroutine t enters readInLock(b) with len(b) = k
Enter(t, k) ==
  /\ loc' = [loc EXCEPT ![t] = [k |-> k, str |-> <<>>, need |-> 0,
                               got |-> <<>>, cl0 |-> chunkLen]]
  /\ pc' = [pc EXCEPT ![t] = Entry(k)]
  /\ panicked' = (Entry(k) = "panic")

\* the test of line 336 left out
ReadClosedNever == FALSE

\* line 336: Close has marked the framer
ReadClosed == destroy

\* the test of line 341 left out
ReadBusyNever == FALSE

\* line 341: another Read is in progress
ReadBusy == reading

\* ObfsConn.Read lines 335-347: the tests under c.lock
ReadBegin(t, k) ==
  /\ pc[t] = "idle"
  /\ lock = "none"
  /\ IF ReadClosed
     THEN /\ res' = [t |-> t, n |-> 0, err |-> "closed"]
          /\ UNCHANGED <<reading, pc, loc>>
     ELSE IF ReadBusy
     THEN /\ res' = [t |-> t, n |-> 0, err |-> "concurrent"]
          /\ UNCHANGED <<reading, pc, loc>>
     ELSE /\ reading' = TRUE
          /\ pc' = [pc EXCEPT ![t] = "acq"]
          /\ loc' = [loc EXCEPT ![t] = [NoLoc EXCEPT !.k = k]]
          /\ UNCHANGED res
  /\ UNCHANGED <<inb, remain, peerv, wrv, poolv, clv, hsv, obsv, pool,
                 chunkLen, eos, destroy, lock, rlock, panicked, cClosed>>

\* line 353: c.rlock.Lock(), then the entry tests of readInLock
ReadAcquire(t) ==
  /\ pc[t] = "acq"
  /\ rlock = "none"
  /\ rlock' = t
  /\ Enter(t, loc[t].k)
  /\ UNCHANGED <<inb, remain, peerv, wrv, poolv, clv, hsv, obsv, pool,
                 chunkLen, eos, reading, destroy, lock, res, cClosed>>

\* readInLock line 262: an empty buffer
ParseEmpty(t) ==
  /\ pc[t] = "ret0"
  /\ Ret(t, 0, "none", <<>>, eos)
  /\ UNCHANGED <<inb, remain, peerv, wrv, poolv, clv, hsv, pool,
                 chunkLen, eos, reading, destroy, panicked, cClosed>>

\* what every doRead of readInLock does to the connection and the role flags
Took(t, r) ==
  /\ inb' = r.inb
  /\ remain' = r.rem
  /\ resp' = (resp /\ ~r.hs)
  /\ req' = (req /\ ~r.hs)

\* the header went by and doRead is now in its RemainConn.Read of line 257
Again(t, r) ==
  /\ Goto(t, pc[t])
  /\ loc' = [loc EXCEPT ![t].got = @ \o r.took]
  /\ UNCHANGED <<chunkLen, eos>>

\* readInLock lines 264-270: the rest of the previous chunk's terminator
ParseTerm(t) ==
  /\ pc[t] = "p_term"
  /\ \E r \in DoRead(chunkLen) :
       /\ Took(t, r)
       /\ IF r.again THEN Again(t, r)
          ELSE IF r.err # "none"
          THEN /\ Ret(t, 0, r.err, <<>>, eos)
               /\ UNCHANGED chunkLen
          ELSE /\ chunkLen' = 0
               /\ Goto(t, "p_hdr")
               /\ loc' = [loc EXCEPT ![t].str = <<>>, ![t].got = @ \o r.took]
  /\ UNCHANGED <<peerv, wrv, poolv, clv, pool, eos, reading, destroy,
                 panicked, cClosed>>

\* position after the chunk length line, line 307
AfterLength(cl) == IF cl = 2 THEN "p_eos" ELSE "p_body"

\* readInLock lines 273-306: one byte of the chunk length line
ParseLength(t) ==
  /\ pc[t] = "p_hdr"
  /\ \E r \in DoRead(1) :
       /\ Took(t, r)
       /\ IF r.again THEN Again(t, r)
          ELSE IF r.err # "none"
          THEN /\ Ret(t, 0, r.err, <<>>, eos)
               /\ UNCHANGED chunkLen
          ELSE LET c == r.data[1] IN
               IF IsHexByte(c)
               THEN /\ loc' = [loc EXCEPT ![t].str = Append(@, c),
                                          ![t].got = @ \o r.took]
                    /\ Goto(t, "p_hdr")
                    /\ UNCHANGED chunkLen
               ELSE IF c = CR
               THEN /\ loc' = [loc EXCEPT ![t].got = @ \o r.took]
                    /\ Goto(t, "p_hdr")
                    /\ UNCHANGED chunkLen
               ELSE IF c = LF /\ Len(loc[t].str) # 0
               THEN /\ chunkLen' = ParseHex(loc[t].str) + 2
                    /\ Goto(t, AfterLength(chunkLen'))
                    /\ loc' = [loc EXCEPT ![t].need = 2,
                                          ![t].got = @ \o r.took]
               ELSE /\ Ret(t, 1, "framing", <<>>, eos)
                    /\ UNCHANGED chunkLen
  /\ UNCHANGED <<peerv, wrv, poolv, clv, pool, eos, reading, destroy,
                 panicked, cClosed>>

\* readInLock lines 307-316: io.ReadFull of the end-of-stream terminator
ParseEos(t) ==
  /\ pc[t] = "p_eos"
  /\ \E r \in RemainRead(loc[t].need) :
       /\ inb' = r.inb
       /\ remain' = r.rem
       /\ IF r.err
          THEN /\ Ret(t, 1, "io", <<>>, eos)
               /\ UNCHANGED eos
          ELSE IF Len(r.data) < loc[t].need
          THEN /\ loc' = [loc EXCEPT ![t].need = @ - Len(r.data),
                                     ![t].got = @ \o r.data]
               /\ Goto(t, "p_eos")
               /\ UNCHANGED eos
          ELSE /\ eos' = TRUE
               /\ Ret(t, 0, "eos", <<>>, TRUE)
  /\ UNCHANGED <<peerv, wrv, poolv, clv, hsv, pool, chunkLen, reading,
                 destroy, panicked, cClosed>>

\* lines 327-330: the count returned after reading j bytes of a chunk of
\* which cl bytes (terminator included) were left
BodyCount(cl, j) == IF cl - j < 2 THEN j - (2 - (cl - j)) ELSE j

\* readInLock lines 317-331: payload bytes
ParseBody(t) ==
  /\ pc[t] = "p_body"
  /\ \E r \in DoRead(Min(loc[t].k, chunkLen)) :
       /\ Took(t, r)
       /\ IF r.again THEN Again(t, r)
          ELSE IF r.err # "none"
          THEN /\ Ret(t, 0, r.err, <<>>, eos)
               /\ UNCHANGED <<chunkLen, eos>>
          ELSE LET j == Len(r.data)
                   n == BodyCount(chunkLen, j) IN
               /\ chunkLen' = chunkLen - j
               /\ Ret(t, n, "none", SubSeq(r.data, 1, n), eos)
               /\ UNCHANGED eos
  /\ UNCHANGED <<peerv, wrv, poolv, clv, pool, reading, destroy,
                 panicked, cClosed>>

\* ObfsConn.Read lines 348-352: the deferred c.reading = false under c.lock
ReadEnd(t) ==
  /\ pc[t] = "fin"
  /\ lock = "none"
  /\ reading' = FALSE
  /\ pc' = [pc EXCEPT ![t] = "idle"]
  /\ UNCHANGED <<inb, remain, peerv, wrv, poolv, clv, hsv, obsv, pool,
                 chunkLen, eos, destroy, lock, rlock, loc, res, panicked,
                 cClosed>>

\* ----------------------------------------------------------------- writes
\* the count of a successful c.Conn.Write taken for that of any write
WriteCountBlind(good, cnt, buf) == Len(buf)

\* lines 385-390: the count RemainConn.Write returns after it has written
\* wremain in front of buf
WriteCount(good, cnt, buf) == IF good THEN Len(buf) ELSE 0

\* RemainConn.Write(buf), lines 383-392; ok is the outcome the net.Conn
\* would give on an open connection, un the count it returns when it fails
RemainWrite(buf, ok, un) ==
  LET good == ok /\ cClosed = 0
      all  == WireBytes(wremain, buf)
      cnt  == IF good THEN Len(all) ELSE IF cClosed = 0 THEN un ELSE 0
  IN  /\ cnt <= Len(all)
      /\ wire' = all
      /\ nOW' = nOW + 1
      /\ wremain' = IF good THEN <<>> ELSE wremain
      /\ wres' = [n |-> IF Len(wremain) # 0 THEN WriteCount(good, cnt, buf)
                       ELSE cnt,
                  err |-> ~good, un |-> cnt]

\* ObfsConn.Write(b), lines 189-204
OWrite(b, ok, un) ==
  /\ nOW < MaxOWrites
  /\ RemainWrite(ObfsFrame(b), ok, un)
  /\ wlast' = b
  /\ UNCHANGED <<inb, remain, peerv, poolv, clv, hsv, obsv, pool, chunkLen,
                 eos, reading, destroy, lock, rlock, pc, loc, res, panicked,
                 cClosed>>

\* ------------------------------------------------------------------ Close
\* the test of line 140 left out
CloseSkipsNever == FALSE

\* line 140: the body has already run
CloseSkips == destroy

\* ObfsConn.Close lines 139-145: test and set c.destroy under c.lock
CloseBegin(t) ==
  /\ pc[t] = "idle"
  /\ lock = "none"
  /\ IF CloseSkips
     THEN /\ reClosed' = TRUE
          /\ UNCHANGED <<destroy, pc>>
     ELSE /\ destroy' = TRUE
          /\ pc' = [pc EXCEPT ![t] = "c_body"]
          /\ UNCHANGED reClosed
  /\ UNCHANGED <<inb, remain, peerv, wrv, poolv, hsv, obsv, pool, chunkLen,
                 eos, reading, lock, rlock, loc, res, panicked, cClosed,
                 nEos, closeWrote, closeDone>>

\* lines 146-154: no pool, or write the end-of-stream chunk
CloseWrite(t, ok) ==
  /\ pc[t] = "c_body"
  /\ IF ~pool
     THEN /\ pc' = [pc EXCEPT ![t] = "c_hard"]
          /\ UNCHANGED <<wrv, nEos, closeWrote>>
     ELSE /\ RemainWrite(ObfsFrame(<<>>), ok, 0)
          /\ wlast' = <<>>
          /\ nEos' = nEos + 1
          /\ closeWrote' = (ok /\ cClosed = 0)
          /\ pc' = [pc EXCEPT ![t] =
                      IF ok /\ cClosed = 0 THEN "c_drain" ELSE "c_hard"]
  /\ UNCHANGED <<inb, remain, peerv, poolv, hsv, obsv, pool, chunkLen, eos,
                 reading, destroy, lock, rlock, loc, res, panicked, cClosed,
                 closeDone, reClosed>>

\* the test of line 162 left out
DrainWaitsNever == FALSE

\* line 162: a Read is in progress, the drain loop lets it finish
DrainWaits == reading

\* lines 157-168: one turn of the drain loop up to the call of readInLock
CloseDrain(t) ==
  /\ pc[t] = "c_drain"
  /\ lock = "none"
  /\ IF eos
     THEN /\ pc' = [pc EXCEPT ![t] = "c_put"]
          /\ UNCHANGED <<lock, loc, panicked>>
     ELSE IF DrainWaits
     THEN /\ pc' = [pc EXCEPT ![t] = "c_spin"]
          /\ UNCHANGED <<lock, loc, panicked>>
     ELSE /\ lock' = t
          /\ Enter(t, BufferSize)
  /\ UNCHANGED <<inb, remain, peerv, wrv, poolv, clv, hsv, obsv, pool,
                 chunkLen, eos, reading, destroy, rlock, res, cClosed>>

\* lines 164-166: c.rlock.Lock(); c.rlock.Unlock(); continue
CloseSpin(t) ==
  /\ pc[t] = "c_spin"
  /\ rlock = "none"
  /\ pc' = [pc EXCEPT ![t] = "c_drain"]
  /\ UNCHANGED <<inb, remain, peerv, wrv, poolv, clv, hsv, obsv, pool,
                 chunkLen, eos, reading, destroy, lock, rlock, loc, res,
                 panicked, cClosed>>

\* lines 147, 152, 174, 184: c.RemainConn.Close() and return
CloseHard(t) ==
  /\ pc[t] = "c_hard"
  /\ cClosed' = cClosed + 1
  /\ closeDone' = TRUE
  /\ pc' = [pc EXCEPT ![t] = "idle"]
  /\ UNCHANGED <<inb, remain, peerv, wrv, poolv, hsv, obsv, pool, chunkLen,
                 eos, reading, destroy, lock, rlock, loc, res, panicked,
                 nEos, closeWrote, reClosed>>

\* lines 179-182: the composite literal &ObfsConn{RemainConn, pool}; the
\* fields it does not name have their zero values
PutFramer ==
  [resp |-> FALSE, req |-> FALSE, chunkLen |-> 0, eos |-> FALSE,
   reading |-> FALSE, destroy |-> FALSE, pool |-> pool]

\* a failed Put returns without closing the connection
AfterPutReturns(ok) == "idle"

\* lines 183-186: position of Close after pool.Put has returned
AfterPut(ok) == IF ok THEN "idle" ELSE "c_hard"

\* lines 179-186: c.pool.Put of a fresh framer on the same RemainConn
ClosePut(t, ok) ==
  /\ pc[t] = "c_put"
  /\ nPutCalls' = nPutCalls + 1
  /\ nPut' = IF ok THEN nPut + 1 ELSE nPut
  /\ pooled' = IF ok THEN Append(pooled, PutFramer) ELSE pooled
  /\ closeDone' = (AfterPut(ok) = "idle")
  /\ pc' = [pc EXCEPT ![t] = AfterPut(ok)]
  /\ UNCHANGED <<inb, remain, peerv, wrv, hsv, obsv, pool, chunkLen, eos,
                 reading, destroy, lock, rlock, loc, res, panicked, cClosed,
                 nEos, closeWrote, reClosed>>

\* ------------------------------------------------------------- the peer
Payloads == SeqsUpTo(PayloadBytes, MaxPayload)

\* the peer framer's Write(p): its one write to the connection arrives
PeerWrite(p) ==
  /\ ~inEOF
  /\ nPeer < MaxPeerSends
  /\ nPeer' = nPeer + 1
  /\ inb' = inb \o WireBytes(pwremain, ObfsFrame(p))
  /\ pwremain' = <<>>
  /\ peerSent' = peerSent \o p
  /\ peerEos' = (peerEos \/ p = <<>>)
  /\ sentLens' = Append(sentLens, Len(p))
  /\ UNCHANGED <<remain, wrv, poolv, clv, hsv, obsv, pool, chunkLen, eos,
                 reading, destroy, lock, rlock, pc, loc, res, panicked,
                 cClosed, peerBad, inEOF>>

\* the peer sends one byte that is not part of a frame
PeerRaw(c) ==
  /\ ~inEOF
  /\ nPeer < MaxPeerSends
  /\ nPeer' = nPeer + 1
  /\ inb' = Append(inb, c)
  /\ peerBad' = TRUE
  /\ UNCHANGED <<remain, wrv, poolv, clv, hsv, obsv, pool, chunkLen, eos,
                 reading, destroy, lock, rlock, pc, loc, res, panicked,
                 cClosed, peerSent, peerEos, sentLens, pwremain, inEOF>>

\* the peer closes the connection (or the network fails)
PeerClose ==
  /\ ~inEOF
  /\ inEOF' = TRUE
  /\ UNCHANGED <<inb, remain, wrv, poolv, clv, hsv, obsv, pool, chunkLen,
                 eos, reading, destroy, lock, rlock, pc, loc, res, panicked,
                 cClosed, peerSent, peerBad, peerEos, sentLens, pwremain,
                 nPeer>>

\* the process is alive and the DelayConn is not involved
Running == ~panicked /\ UNCHANGED <<dvars, acc, cfgPool>>

ONext ==
  \/ \E t \in Readers, k \in 0..MaxBuf : ReadBegin(t, k) /\ Running
  \/ \E t \in Readers : ReadAcquire(t) /\ Running
  \/ \E t \in Threads : ParseEmpty(t) /\ Running
  \/ \E t \in Threads : ParseTerm(t) /\ Running
  \/ \E t \in Threads : ParseLength(t) /\ Running
  \/ \E t \in Threads : ParseEos(t) /\ Running
  \/ \E t \in Threads : ParseBody(t) /\ Running
  \/ \E t \in Readers : ReadEnd(t) /\ Running
  \/ \E t \in Closers : CloseBegin(t) /\ Running
  \/ \E t \in Closers, ok \in BOOLEAN : CloseWrite(t, ok) /\ Running
  \/ \E t \in Closers : CloseDrain(t) /\ Running
  \/ \E t \in Closers : CloseSpin(t) /\ Running
  \/ \E t \in Closers : CloseHard(t) /\ Running
  \/ \E t \in Closers, ok \in BOOLEAN : ClosePut(t, ok) /\ Running
  \/ \E p \in Payloads : PeerWrite(p) /\ Running
  \/ \E c \in RawBytes : PeerRaw(c) /\ Running
  \/ PeerClose /\ Running

InitObfs == DInit /\ OInit

SpecObfs == InitObfs /\ [][ONext]_vars


\* ------------------------------------------------- one reader, long chunks
\* payloads up to MaxPayload bytes and the two longest, whose length takes two
\* hex digits
FrameLens == (0..MaxPayload) \cup {MaxFrame - 1, MaxFrame}
LongPayloads == {[i \in 1..n |-> c] : n \in FrameLens, c \in LongBytes}

CodecNext ==
  \/ \E k \in 0..MaxBuf : ReadBegin("r1", k) /\ Running
  \/ ReadAcquire("r1") /\ Running
  \/ ParseEmpty("r1") /\ Running
  \/ ParseTerm("r1") /\ Running
  \/ ParseLength("r1") /\ Running
  \/ ParseEos("r1") /\ Running
  \/ ParseBody("r1") /\ Running
  \/ ReadEnd("r1") /\ Running
  \/ \E b \in Payloads, ok \in BOOLEAN : OWrite(b, ok, 0) /\ Running
  \/ \E p \in LongPayloads : PeerWrite(p) /\ Running
  \/ PeerClose /\ Running

InitCodec == DInit /\ (OInit \/ ODial) /\ ~pool

SpecCodec == InitCodec /\ [][CodecNext]_vars

\* ------------------------------------ one Read and one Close, with a pool
DrainNext ==
  \/ \E k \in 0..MaxBuf : ReadBegin("r1", k) /\ Running
  \/ ReadAcquire("r1") /\ Running
  \/ \E t \in {"r1", "c1"} : ParseEmpty(t) /\ Running
  \/ \E t \in {"r1", "c1"} : ParseTerm(t) /\ Running
  \/ \E t \in {"r1", "c1"} : ParseLength(t) /\ Running
  \/ \E t \in {"r1", "c1"} : ParseEos(t) /\ Running
  \/ \E t \in {"r1", "c1"} : ParseBody(t) /\ Running
  \/ ReadEnd("r1") /\ Running
  \/ CloseBegin("c1") /\ Running
  \/ \E ok \in BOOLEAN : CloseWrite("c1", ok) /\ Running
  \/ CloseDrain("c1") /\ Running
  \/ CloseSpin("c1") /\ Running
  \/ CloseHard("c1") /\ Running
  \/ \E ok \in BOOLEAN : ClosePut("c1", ok) /\ Running
  \/ \E p \in Payloads : PeerWrite(p) /\ Running
  \/ PeerClose /\ Running

\* a step of goroutine t once it is inside Read or Close
InsideStep(t) ==
  \/ ReadAcquire(t)
  \/ ParseEmpty(t) \/ ParseTerm(t) \/ ParseLength(t) \/ ParseEos(t)
  \/ ParseBody(t)
  \/ ReadEnd(t)
  \/ \E ok \in BOOLEAN : CloseWrite(t, ok)
  \/ CloseDrain(t) \/ CloseSpin(t) \/ CloseHard(t)
  \/ \E ok \in BOOLEAN : ClosePut(t, ok)

\* the scheduler runs both goroutines, and a call that can return does
DrainFair ==
  /\ WF_vars(InsideStep("r1") /\ Running)
  /\ WF_vars(InsideStep("c1") /\ Running)

InitDrain == DInit /\ OInit /\ pool

SpecDrainLive == InitDrain /\ [][DrainNext]_vars /\ DrainFair

\* -------------------- the same on a dialled framer, with a peer that may
\* send bytes outside any frame
ShakeNext ==
  \/ DrainNext
  \/ \E c \in RawBytes : PeerRaw(c) /\ Running

InitShake == DInit /\ ODial /\ pool

SpecShake == InitShake /\ [][ShakeNext]_vars

\* ------------------------------------- the write side of a framer alone
WriteNext ==
  \/ \E b \in Payloads : OWrite(b, TRUE, 0) /\ Running
  \/ \E b \in Payloads, un \in 0..MaxPartial : OWrite(b, FALSE, un) /\ Running
  \/ CloseBegin("c1") /\ Running
  \/ CloseWrite("c1", TRUE) /\ Running
  \/ CloseHard("c1") /\ Running

InitWrite == DInit /\ (OInit \/ ODial) /\ ~pool

SpecWrite == InitWrite /\ [][WriteNext]_vars

\* ------------------------------------------------------ obfsAcceptHandler
\* the test of line 439 on the bytes buf[:n] of the first read
AcceptsAsPlain(buf) == Len(buf) > 4 /\ SubSeq(buf, 1, 4) # MethodToken

\* obfsAcceptHandler(conn, lis), lines 428-451
Accept ==
  /\ acc = "pending"
  /\ \E r \in ConnRead(BufferSize) :
       /\ inb' = r.inb
       /\ IF r.err \/ Len(r.data) = 0
          THEN /\ acc' = "closed"
               /\ cClosed' = cClosed + 1
               /\ UNCHANGED <<remain, wremain, req, pool>>
          ELSE IF AcceptsAsPlain(r.data)
          THEN /\ acc' = "plain"
               /\ remain' = r.data
               /\ UNCHANGED <<cClosed, wremain, req, pool>>
          ELSE /\ acc' = "framer"
               /\ remain' = r.data
               /\ wremain' = RespHeader
               /\ req' = TRUE
               /\ pool' = cfgPool
               /\ UNCHANGED cClosed
  /\ UNCHANGED <<peerv, poolv, clv, obsv, resp, chunkLen, eos, reading,
                 destroy, lock, rlock, pc, loc, res, panicked, wire, nOW,
                 wlast, wres, cfgPool>>

\* RemainConn.Read(b) with len(b) = m on the passthrough wrapper
PlainRead(m) ==
  /\ acc = "plain"
  /\ \E r \in RemainRead(m) :
       /\ inb' = r.inb
       /\ remain' = r.rem
       /\ decoded' = decoded \o r.data
       /\ res' = [t |-> "plain", n |-> Len(r.data),
                  err |-> IF r.err THEN "io" ELSE "none"]
  /\ UNCHANGED <<peerv, wrv, poolv, clv, hsv, pool, chunkLen, eos, reading,
                 destroy, lock, rlock, pc, loc, panicked, cClosed,
                 drainFailed, framingSeen, hsFailed>>

IsFramer == acc = "framer"

AcceptNext ==
  \/ Accept /\ ~panicked /\ UNCHANGED dvars
  \/ \E m \in 1..MaxBuf : PlainRead(m) /\ Running
  \/ \E k \in 0..MaxBuf : IsFramer /\ ReadBegin("r1", k) /\ Running
  \/ ReadAcquire("r1") /\ Running
  \/ ParseEmpty("r1") /\ Running
  \/ ParseTerm("r1") /\ Running
  \/ ParseLength("r1") /\ Running
  \/ ParseEos("r1") /\ Running
  \/ ParseBody("r1") /\ Running
  \/ ReadEnd("r1") /\ Running
  \/ \E p \in Payloads : PeerWrite(p) /\ Running
  \/ \E c \in RawBytes : PeerRaw(c) /\ Running
  \/ PeerClose /\ Running

InitAccept == DInit /\ OListen

SpecAccept == InitAccept /\ [][AcceptNext]_vars

InitDelay == DInit /\ OIdle

SpecDelay == InitDelay /\ [][DNext]_vars

\* one step of the sendLoop goroutine
LoopStep ==
  \/ LoopTop
  \/ LoopWake
  \/ LoopSelectDie
  \/ LoopSelectTick
  \/ \E ok \in BOOLEAN : LoopFlush(ok)
  \/ LoopErrClose

\* the scheduler runs the sendLoop goroutine whenever it can take a step
\* (the timer of line 64 fires, c.Conn.Write returns)
DelayFair == WF_vars(LoopStep /\ UNCHANGED ovars)

SpecDelayLive == InitDelay /\ [][DNext]_vars /\ DelayFair

\* =================================================================== claims

\* C7: while the write-coalescer is not closed and no underlying write has
\* failed, the bytes passed to underlying writes are a prefix of the bytes the
\* application wrote, the two are equal whenever the buffer is empty, and
\* there are never more underlying writes than application writes.
C7_CoalescePreservesStream ==
  (~destroyed /\ ~wfailed) =>
     /\ IsPrefix(sent, written)
     /\ (off = 0 => sent = written)
     /\ nUnder <= nApp

\* C7 witness: a buffered write was overwritten in the buffer by a second one,
\* the loop flushed, and a later write went out synchronously
C7_Witness ==
  /\ ~destroyed /\ ~wfailed
  /\ nLoopWr >= 1 /\ nUnder > nLoopWr
  /\ Len(written) >= BufferSize + 1
  /\ sent = written

\* C8: once the write-coalescer is destroyed the flush loop issues no further
\* write to the underlying connection.
C8_NoFlushAfterDestroy == [][destroyed => nLoopWr' = nLoopWr]_vars

\* C9 (as stated): a non-empty Write goes out synchronously, buffer first,
\* exactly when offset + len(b) > capacity; otherwise it is appended, the loop
\* is started on the first buffered write and signalled, and nothing is
\* written below.
WriteStepAsClaimed(bypass(_, _)) ==
  LET n == Len(written') - Len(written)
      b == SubSeq(written', Len(written) + 1, Len(written'))
  IN  (nApp' = nApp + 1 /\ n > 0) =>
        IF bypass(n, off)
        THEN /\ nUnder' = nUnder + 1
             /\ sent' = sent \o SubSeq(wbuf, 1, off) \o b
             /\ off' = 0
        ELSE /\ off' = off + n
             /\ off' <= BufferSize
             /\ SubSeq(wbuf', 1, off') = SubSeq(wbuf, 1, off) \o b
             /\ nUnder' = nUnder /\ sent' = sent
             /\ started'
             /\ nLoops' = (IF started THEN nLoops ELSE nLoops + 1)
             /\ (~started => lpc' = "top")
             /\ (lpc = "wait" => lpc' = "woken")

OverflowsCapacity(n, o) == o + n > BufferSize
ReachesCapacity(n, o) == o + n >= BufferSize

C9_WriteSplitsOnOverflow == [][WriteStepAsClaimed(OverflowsCapacity)]_vars

\* C9 (amended): the same with the synchronous path taken as soon as
\* offset + len(b) >= capacity, so a Write that would exactly fill the buffer
\* is sent synchronously too.
C9_WriteSplitsAtCapacity == [][WriteStepAsClaimed(ReachesCapacity)]_vars

\* C9 witness: a buffered write followed by one that exactly fills the buffer
\* has gone out as one synchronous write
C9_Witness ==
  /\ nApp >= 2 /\ nUnder = 1 /\ nLoopWr = 0 /\ ~wfailed
  /\ Len(sent) = BufferSize /\ sent = written /\ off = 0

\* C10: the buffer offset stays within 0..capacity and at most one flush loop
\* is ever started.
C10_OffsetAndLoopBound ==
  /\ off >= 0
  /\ off <= BufferSize
  /\ nLoops <= 1

\* C10 witness: two buffered writes, the second waking the running loop
C10_Witness ==
  /\ nLoops = 1 /\ nApp >= 2 /\ off >= 2 /\ nUnder = 0 /\ lpc # "top"
\* C1: for a pool-associated framer whose Close has written its end-of-stream
\* chunk: when the peer's marker is observed Close calls pool.Put and, if Put
\* succeeds, leaves the connection open; when a read of the drain (by Close or
\* by an application Read in flight) fails before the marker, Close closes the
\* connection and never calls pool.Put.
C1_DrainDecidesPoolOrClose ==
  /\ (pool /\ closeWrote /\ closeDone /\ eos) =>
        (nPutCalls = 1 /\ (nPut = 1 => cClosed = 0))
  /\ drainFailed => (nPutCalls = 0 /\ (closeDone => cClosed = 1))

\* C2: once an application Read has failed with a framing error the connection
\* is never submitted to the pool.
C2_FramingErrorNeverPooled == framingSeen => nPutCalls = 0

\* C3: the body of Close runs once whatever the number of Close calls: at most
\* one end-of-stream chunk written by Close, one pool.Put, one close of the
\* connection, one goroutine inside the body; a Close call that finds the
\* framer destroyed returns at once and changes nothing.
C3_CloseIsIdempotent ==
  /\ [](/\ nEos <= 1
        /\ nPutCalls <= 1
        /\ cClosed <= 1
        /\ Cardinality({t \in Closers : pc[t] # "idle"}) <= 1)
  /\ [][\A t \in Closers :
          (destroy /\ pc[t] = "idle") =>
             /\ pc'[t] = "idle"
             /\ (reClosed' # reClosed =>
                   UNCHANGED <<inb, remain, peerv, wrv, poolv, hsv, obsv, pool,
                               chunkLen, eos, reading, destroy, lock, rlock,
                               pc, loc, res, panicked, cClosed, nEos,
                               closeWrote, closeDone>>)]_vars

\* C3 witness: a second Close call returned while the first was still draining,
\* and the first went on to pool the connection
C3_Witness ==
  /\ reClosed /\ closeDone /\ nEos = 1 /\ nPut = 1 /\ cClosed = 0
  /\ \A t \in Closers : pc[t] = "idle"

\* C4: a Read called while another Read is in progress is never kept waiting
\* for c.lock, returns a concurrency-misuse error (concurrent read, or read
\* from closed connection once Close has marked the framer) with zero bytes,
\* reads nothing from the connection and leaves the chunk state and the
\* Read in progress untouched.
C4_SecondReadFailsFast ==
  /\ [](reading => lock = "none")
  /\ [][\A t \in Readers :
          (/\ pc[t] = "idle"
           /\ reading
           /\ \/ pc'[t] # "idle"
              \/ (res' # res /\ res'.t = t)) =>
             /\ pc' = pc
             /\ res'.err \in {"concurrent", "closed"}
             /\ res'.n = 0
             /\ UNCHANGED <<inb, remain, chunkLen, eos, hsv, reading, loc,
                            lock, rlock, decoded>>]_vars

\* C4 witness: r2 was refused with "concurrent read" while r1 is in the
\* middle of a chunk
C4_Witness ==
  /\ res = [t |-> "r2", n |-> 0, err |-> "concurrent"]
  /\ reading /\ ~destroy
  /\ pc["r1"] = "p_body" /\ chunkLen > 2

\* C5: on a connection that carries only the frames of the peer's Writes, and
\* before any end-of-stream chunk is read, every Read with a non-empty buffer
\* returns payload bytes in order and nothing else: no Read fails with a
\* framing error, none panics, and the bytes returned so far are a prefix of
\* the bytes the peer wrote.
C5_FramesRoundTrip ==
  (~peerBad /\ cClosed = 0 /\ ~eos) =>
     /\ ~panicked
     /\ res.err # "framing"
     /\ IsPrefix(decoded, peerSent)

\* the sixteen lowercase hexadecimal digits
HexTable == <<48, 49, 50, 51, 52, 53, 54, 55, 56, 57, 97, 98, 99, 100, 101, 102>>

RECURSIVE LowerHex(_)
LowerHex(n) ==
  IF n < 16 THEN <<HexTable[n + 1]>>
  ELSE LowerHex(n \div 16) \o <<HexTable[(n % 16) + 1]>>

EosChunk == <<48, 13, 10, 13, 10>>

\* the chunk the claim describes for payload b
ChunkBytes(b) ==
  IF b = <<>> THEN EosChunk
  ELSE LowerHex(Len(b)) \o <<13, 10>> \o b \o <<13, 10>>

\* the bytes this step takes off the connection
Eaten ==
  SubSeq(remain \o inb, 1, Len(remain) + Len(inb) - Len(remain') - Len(inb'))

WithoutHeader(s) ==
  IF IsPrefix(ReqHeader, s) THEN SubSeq(s, Len(ReqHeader) + 1, Len(s))
  ELSE IF IsPrefix(RespHeader, s) THEN SubSeq(s, Len(RespHeader) + 1, Len(s))
  ELSE s

\* goroutine t's Read, begun at a chunk boundary, returns in this step having
\* taken exactly an end-of-stream chunk (after the disguise header, if that
\* was still to come and this Read has accepted it)
ReadTookEosChunk(t) ==
  /\ pc[t] \in {"p_term", "p_hdr", "p_eos", "p_body"}
  /\ pc'[t] = "fin"
  /\ loc[t].cl0 = 0
  /\ ~resp' /\ ~req'
  /\ WithoutHeader(loc[t].got \o Eaten) = EosChunk

\* C6: one Write(b) of a framer puts on the connection, in one write, the
\* still-unsent disguise header if there is one and then exactly the length of
\* b in lowercase hexadecimal, CR LF, the bytes of b, CR LF - for an empty b
\* the five bytes "0" CR LF CR LF; and a Read that takes those five bytes at a
\* chunk boundary returns zero bytes with the end-of-stream signal.
C6_ChunkFormatAndEos ==
  [][/\ (nPeer' # nPeer /\ ~peerBad') =>
          /\ inb' = inb \o pwremain
                        \o ChunkBytes(SubSeq(peerSent', Len(peerSent) + 1,
                                             Len(peerSent')))
          /\ pwremain' = <<>>
     /\ nOW' # nOW =>
          /\ nOW' = nOW + 1
          /\ wire' = wremain \o ChunkBytes(wlast')
     /\ \A t \in Readers :
          ReadTookEosChunk(t) =>
             (res' = [t |-> t, n |-> 0, err |-> "eos"] /\ eos')]_vars

\* C6 witness: the dialling framer sent its header in front of a chunk, the
\* peer wrote a payload whose length takes two hex digits and an empty one,
\* and the Read that took the empty chunk returned the end-of-stream signal
C6_Witness ==
  /\ nOW > 0 /\ wlast # <<>> /\ wremain = <<>>
  /\ wire = ReqHeader \o ChunkBytes(wlast)
  /\ Len(peerSent) >= 16
  /\ ~resp /\ pwremain = <<>>
  /\ eos /\ res = [t |-> "r1", n |-> 0, err |-> "eos"]
  /\ inb = <<>> /\ remain = <<>>

\* C11: whatever the number of Close calls, the sendLoop's own Close after a
\* failed write included, close(c.die) and c.Conn.Close() run exactly once
\* each once the DelayConn is destroyed and never before; the sendLoop is
\* never stuck at a point where it holds or wants the lock; and a started
\* sendLoop exits once the DelayConn is destroyed.
C11_DelayCloseOnceAndLoopExits ==
  /\ [](/\ dieCloses = (IF destroyed THEN 1 ELSE 0)
        /\ dClosed = dieCloses
        /\ die = destroyed
        /\ (lpc \in {"top", "woken", "select", "tick", "errclose"} =>
              ENABLED (LoopStep /\ UNCHANGED ovars)))
  /\ ((destroyed /\ started) ~> (lpc = "done"))

\* C11 witness: the application closed the DelayConn while the sendLoop was
\* in its delay; the loop's write then failed, the loop called Close itself
\* and exited
C11_Witness ==
  /\ destroyed /\ lpc = "done" /\ wfailed
  /\ nLoopWr = 1 /\ nUnder = 1
  /\ dClosed = 1 /\ dieCloses = 1

\* the bytes of the first read, which this step of obfsAcceptHandler takes
Peeked == SubSeq(inb, 1, Len(inb) - Len(inb'))

\* C12: when the first read of an accepted connection gives fewer than 4
\* bytes, or bytes that do not start with "POST", obfsAcceptHandler returns
\* the plain passthrough with exactly those bytes as look-ahead and builds no
\* framer; when they start with "POST" it returns a framer expecting a
\* request, with those bytes as look-ahead, the response header unsent and
\* the listener's pool.
C12_AcceptClassifies ==
  [][(acc = "pending" /\ acc' \in {"plain", "framer"}) =>
        IF IsPrefix(MethodToken, Peeked)
        THEN /\ acc' = "framer"
             /\ remain' = Peeked
             /\ wremain' = RespHeader
             /\ req' /\ ~resp'
             /\ pool' = cfgPool
        ELSE /\ acc' = "plain"
             /\ remain' = Peeked
             /\ UNCHANGED <<wremain, req, resp, pool>>]_vars

\* C13: once eos is true no step of a Read or of Close takes a byte from the
\* connection or from the look-ahead.
C13_NoReadAfterEos ==
  [][eos => Len(remain') + Len(inb') >= Len(remain) + Len(inb)]_vars

\* C14: Close of a framer with a pool, called while a Read is in flight, does
\* not deadlock: the closer never holds c.lock while a Read is in progress, a
\* Read in flight returns unless it waits for bytes of the peer, and once the
\* peer's end-of-stream chunk has been sent (or the peer's side has failed)
\* Close returns.
C14_CloseWithReadInFlightReturns ==
  /\ [](reading => lock = "none")
  /\ (pc["r1"] # "idle") ~>
        (pc["r1"] = "idle" \/ panicked \/ (inb = <<>> /\ ~inEOF /\ cClosed = 0))
  /\ (pc["c1"] # "idle" /\ (peerEos \/ inEOF)) ~>
        (pc["c1"] = "idle" \/ panicked)

\* C14 witness: Close has written its end-of-stream chunk and waits for the
\* Read that is in the middle of a chunk, while the peer's end-of-stream
\* chunk is already on its way
C14_Witness ==
  /\ pc["c1"] = "c_spin" /\ closeWrote
  /\ reading /\ pc["r1"] = "p_body" /\ rlock = "r1"
  /\ peerEos /\ inb # <<>>

\* C15: once a Read has failed in the handshake the connection is never
\* submitted to the pool, and a Close that has completed has closed it.
C15_FailedHandshakeNeverPooled ==
  hsFailed => (nPutCalls = 0 /\ (closeDone => cClosed = 1))

\* C16: a RemainConn.Write(buf) with non-empty wremain issues one underlying
\* write of wremain followed by buf; when that succeeds it clears wremain and
\* returns len(buf), when it fails it returns 0 with the error and leaves
\* wremain as it was; with empty wremain it issues the one underlying write of
\* buf and returns what that returned.  wremain changes in no other way, so
\* the queued header is written once, in front of the first payload.
C16_RemainWritePrependsOnce ==
  [][LET buf == ChunkBytes(wlast') IN
     /\ nOW' # nOW =>
          /\ nOW' = nOW + 1
          /\ wire' = wremain \o buf
          /\ wres'.un <= Len(wire')
          /\ wres'.err = (wres'.un < Len(wire'))
          /\ IF wremain # <<>>
             THEN IF wres'.err
                  THEN wres'.n = 0 /\ wremain' = wremain
                  ELSE wres'.n = Len(buf) /\ wremain' = <<>>
             ELSE wres'.n = wres'.un /\ wremain' = <<>>
     /\ wremain' # wremain =>
          (nOW' # nOW /\ ~wres'.err /\ wremain' = <<>>)]_vars

\* C16 witness: the first Write failed and kept the header; the second sent
\* header and chunk in one write, returned the length of the chunk alone and
\* cleared the header
C16_Witness ==
  /\ nOW = 2 /\ wremain = <<>> /\ ~wres.err
  /\ wlast # <<>> /\ wire = ReqHeader \o ChunkBytes(wlast)
  /\ wres.n = Len(ChunkBytes(wlast)) /\ wres.un = Len(wire)

\* the positions inside readInLock
InParser == {"ret0", "panic", "p_term", "p_hdr", "p_eos", "p_body"}

\* C17: at most one goroutine is inside readInLock at any time, be it in a
\* Read or in the drain loop of Close; and a Read called after Close has set
\* destroy does not enter: it returns "read from closed connection" with zero
\* bytes and takes nothing from the connection.
C17_ParserIsSerialized ==
  /\ [](Cardinality({t \in Threads : pc[t] \in InParser}) <= 1)
  /\ [][\A t \in Readers :
          (destroy /\ pc[t] = "idle") =>
             /\ pc'[t] = "idle"
             /\ (res' # res /\ res'.t = t) =>
                   /\ res' = [t |-> t, n |-> 0, err |-> "closed"]
                   /\ UNCHANGED <<inb, remain, chunkLen, eos, hsv, reading,
                                  rlock, lock>>]_vars

\* C17 witness: Close is inside readInLock for its drain, holding c.lock,
\* after r2's Read was refused because the framer is destroyed
C17_Witness ==
  /\ pc["c1"] = "p_body" /\ lock = "c1" /\ destroy
  /\ res = [t |-> "r2", n |-> 0, err |-> "closed"]
  /\ \A t \in Readers : pc[t] = "idle"

\* bytes of the chunk that carries a payload of n bytes
FrameSize(n) == Len(LowerHex(n)) + 2 + n + 2

RECURSIVE SumFrames(_)
SumFrames(ls) ==
  IF ls = <<>> THEN 0 ELSE FrameSize(Head(ls)) + SumFrames(Tail(ls))

\* bytes of the inbound stream the parser has taken so far
Consumed == SumFrames(sentLens) - Len(remain) - Len(inb)

\* bytes of the current chunk, terminator included, that lie after
\* position pos of a stream of chunks with payload lengths ls; 0 at the
\* start of a chunk length line, -1 inside a chunk length line
RECURSIVE LeftInChunk(_, _)
LeftInChunk(ls, pos) ==
  IF pos = 0 THEN 0
  ELSE IF ls = <<>> THEN -1
  ELSE LET h == Len(LowerHex(Head(ls))) + 2
           f == FrameSize(Head(ls)) IN
       IF pos < h THEN -1
       ELSE IF pos < f THEN f - pos
       ELSE LeftInChunk(Tail(ls), pos - f)

\* C18: when a Read has returned without error on a stream of well-formed
\* chunks, chunkLen is the number of bytes of the current chunk, payload
\* and terminator, that the framer has not yet taken, and 0 when the
\* next byte starts a chunk length line
C18_ChunkLenIsBytesLeft ==
  \A t \in Readers :
    (pc[t] = "fin" /\ res.t = t /\ res.err = "none" /\ ~peerBad) =>
       chunkLen = LeftInChunk(sentLens, Consumed)

\* C19: when Close of a framer with a pool has returned, either pool.Put
\* has accepted the connection once, inside a fresh framer (role flags
\* cleared, chunkLen 0, eos false, not destroyed, the same pool), and the
\* connection is open, or the connection is closed once and nothing is
\* pooled; a failed end-of-stream write and a failed Put end in the second
C19_PooledOrClosed ==
  (pool /\ closeDone) =>
     /\ \/ /\ nPut = 1 /\ cClosed = 0
           /\ pooled = <<[resp |-> FALSE, req |-> FALSE, chunkLen |-> 0,
                          eos |-> FALSE, reading |-> FALSE,
                          destroy |-> FALSE, pool |-> pool]>>
        \/ nPut = 0 /\ cClosed = 1 /\ pooled = <<>>
     /\ (nEos >= 1 /\ ~closeWrote) => (nPutCalls = 0 /\ cClosed = 1)
     /\ nPutCalls > nPut => cClosed = 1

\* Close has drained to the marker, pool.Put has refused the framer and
\* Close has closed the connection
C19_Witness ==
  /\ pool /\ closeDone /\ closeWrote /\ eos
  /\ nPutCalls = 1 /\ nPut = 0 /\ cClosed = 1
  /\ \A t \in Threads : pc[t] = "idle"

\* C20: while the write-coalescer is not closed and no underlying write
\* has failed, a non-empty buffer means the flush loop has been started
\* and is not asleep in cond.Wait, and under fair scheduling of the loop
\* every byte a Write has accepted is eventually passed to the underlying
\* connection, unless the coalescer is closed or an underlying write fails
C20_AcceptedBytesAreFlushed ==
  /\ []((off > 0 /\ ~destroyed /\ ~wfailed) =>
           (started /\ lpc \in {"top", "woken", "select", "tick"}))
  /\ \A n \in 1..(MaxWrites * MaxWLen) :
       (Len(written) >= n) ~>
          \/ destroyed
          \/ wfailed
          \/ (Len(sent) >= n /\ SubSeq(sent, 1, n) = SubSeq(written, 1, n))

\* the loop has flushed twice, the second time bytes that a Write buffered
\* after the loop had been started, and is back in cond.Wait
C20_Witness ==
  /\ ~destroyed /\ ~wfailed
  /\ nLoopWr >= 2 /\ nUnder = nLoopWr
  /\ off = 0 /\ sent = written
  /\ lpc = "wait"

====
